---- MODULE Spec2Model ----
(***************************************************************************)
(* Elementary (radius-1, two-state) cellular automaton of the notebooks:   *)
(* get_rule builds the rule table of a Wolfram rule number, window         *)
(* enumerates the 3-cell neighbourhoods of a configuration and             *)
(* generate_pattern iterates the rule, keeping every configuration.        *)
(*                                                                         *)
(* A Python string is modelled as a sequence of one-character strings, a   *)
(* dict as a function whose DOMAIN is its key set.                         *)
(***************************************************************************)
EXTENDS Integers, Sequences, FiniteSets, TLC

VARIABLES
    n,          \* the rule number handed to get_rule
    init_state, \* the initial configuration handed to generate_pattern
    max_gen,    \* the generation count handed to generate_pattern
    rule,       \* the dict returned by get_rule (<<>> before it is built)
    state,      \* generate_pattern's local `state`
    states,     \* generate_pattern's local list `states`
    gen,        \* the loop variable of `for gen in range(max_gen)`
    pc,         \* position of the run
    run,        \* 1 during the first call with these inputs, 2 during the second
    first,      \* the list the first call returned (<<>> until it has returned)
    out,        \* the lines printed so far by print_pattern
    grid,       \* the array last handed to the image (<<>> before there is one)
    frame       \* the frame number of the last call of update

vars == <<n, init_state, max_gen, rule, state, states, gen, pc, run, first, out, grid, frame>>

----------------------------------------------------------------------------
(* Bounds of the model *)

MaxLen == 4     \* longest initial configuration drawn by Init
MaxGen == 2     \* largest generation count drawn by Init

----------------------------------------------------------------------------
(* Strings *)

Max(a, b) == IF a >= b THEN a ELSE b

Abs(a) == IF a < 0 THEN 0 - a ELSE a

Digit(b) == IF b = 0 THEN "0" ELSE "1"

Zeros(k) == [i \in 1..k |-> "0"]

\* binary digits of m >= 0, most significant first, no padding ("0" for 0)
RECURSIVE Digits(_)
Digits(m) == IF m < 2 THEN <<Digit(m)>> ELSE Digits(m \div 2) \o <<Digit(m % 2)>>

\* Python's f"{v:0{width}b}": sign first, then zeros up to the minimum width
\* (the sign counts towards the width), then the binary digits of |v|; a value
\* that needs more than `width` characters is not truncated.
Format(v, width) ==
    LET sign == IF v < 0 THEN <<"-">> ELSE <<>>
        d    == Digits(Abs(v))
    IN  sign \o Zeros(Max(0, width - Len(sign) - Len(d))) \o d

\* the reversal left out
ReverseDropped(s) == s

\* s[::-1]
Reverse(s) == [i \in 1..Len(s) |-> s[Len(s) + 1 - i]]

----------------------------------------------------------------------------
(* Helper functions of the notebooks *)

\* the values of range(k)
Range(k) == 0..(k - 1)

\* range(len(iterable) - stride), one window short
windowShort(iterable, stride) ==
    [j \in 1..Max(0, Len(iterable) - stride) |-> SubSeq(iterable, j, j + stride - 1)]

\* window(iterable, stride): the slices iterable[i:i+stride] for
\* i in range(len(iterable) - stride + 1), in order
window(iterable, stride) ==
    [j \in 1..Max(0, Len(iterable) - stride + 1) |-> SubSeq(iterable, j, j + stride - 1)]

\* get_rule(n), with the key formatted to `keywidth` digits
RuleTable(v, keywidth) ==
    LET rule_number == Reverse(Format(v, 8))
    IN  [key \in {Format(i, keywidth) : i \in Range(8)} |->
            rule_number[(CHOOSE i \in Range(8) : Format(i, keywidth) = key) + 1]]

get_rule_unpadded(v) == RuleTable(v, 1)

get_rule(v) == RuleTable(v, 3)

\* cell i of st (1-based), read as off outside the tracked cells
CellAt(st, i) == IF i \in 1..Len(st) THEN st[i] ELSE "0"

\* one step of the lattice that is all-off outside the tracked cells, restricted
\* to the tracked cells: every tracked cell, the edge cells included, is the rule
\* applied to its left neighbour, itself and its right neighbour
LatticeStep(st, rl) ==
    [i \in 1..Len(st) |-> rl[<<CellAt(st, i - 1), CellAt(st, i), CellAt(st, i + 1)>>]]

\* the same with the two edge cells set off
ClipEdges(st) == [i \in 1..Len(st) |-> IF i = 1 \/ i = Len(st) THEN "0" ELSE st[i]]

\* '00{}00': the configuration grows by one cell on each side
NextStateGrow(st, rl) ==
    LET patterns == window(st, 3)
        joined   == [j \in 1..Len(patterns) |-> rl[patterns[j]]]
    IN  <<"0", "0">> \o joined \o <<"0", "0">>

\* '{}00': both pad cells behind, the update shifted one cell to the left
NextStateShifted(st, rl) ==
    LET patterns == window(st, 3)
        joined   == [j \in 1..Len(patterns) |-> rl[patterns[j]]]
    IN  joined \o <<"0", "0">>

\* the edge cells computed by the rule from off neighbours instead of padded
NextStateUnclipped(st, rl) == LatticeStep(st, rl)

\* '1{}1': the pad cells on
NextStatePadOn(st, rl) ==
    LET patterns == window(st, 3)
        joined   == [j \in 1..Len(patterns) |-> rl[patterns[j]]]
    IN  <<"1">> \o joined \o <<"1">>

\* the body of one loop iteration: the windows of `state` looked up in `rule`
\* and joined, with one "0" put in front and one behind
NextState(st, rl) ==
    LET patterns == window(st, 3)
        joined   == [j \in 1..Len(patterns) |-> rl[patterns[j]]]
    IN  <<"0">> \o joined \o <<"0">>

\* the loop of generate_pattern with k iterations left
RECURSIVE Generations(_, _, _, _)
Generations(sts, st, rl, k) ==
    IF k <= 0 THEN sts
    ELSE Generations(Append(sts, NextState(st, rl)), NextState(st, rl), rl, k - 1)

\* the list generate_pattern(st, rl, k) returns when no lookup fails
generate_pattern(st, rl, k) == Generations(<<st>>, st, rl, k)

\* rule[pat] raises KeyError for some window of `st`
LookupFails(st, rl) ==
    \E j \in 1..Len(window(st, 3)) : window(st, 3)[j] \notin DOMAIN rl

----------------------------------------------------------------------------
(* Inputs *)

\* the list in interesting_rule_number
InterestingRules == {30, 45, 54, 60, 62, 90, 901, 94, 110, 122, 126, 150, 182, 225}

\* the range the docstring of get_rule gives for n
DocumentedRules == 0..255

\* rule numbers outside the documented range that a caller can pass
OutOfRangeRules == {-1, 256} \cup (InterestingRules \ DocumentedRules)

RuleNumbers == DocumentedRules \cup OutOfRangeRules

\* the characters of a configuration
InputSymbols == {"0", "1"}

Configurations == UNION {[1..l -> InputSymbols] : l \in 0..MaxLen}

GenerationCounts == (0 - 1)..MaxGen

\* a configuration of `len` cells whose only '1' is the cell at 1-based position c
SingleOn(len, c) == [i \in 1..len |-> IF i = c THEN "1" ELSE "0"]

\* MAX_GEN of the execution cells
MAX_GEN == 100

\* init_state of the execution cells: 81 cells, the '1' at index 40
RegularInitState == SingleOn(81, 41)

\* the scenario of the specification: 85 cells, the '1' at index 42
ScenarioInitState == SingleOn(85, 43)

----------------------------------------------------------------------------
(* The run: generate_pattern(init_state, get_rule(n), max_gen) *)

Fresh ==
    /\ rule = <<>>
    /\ state = <<>>
    /\ states = <<>>
    /\ gen = 0
    /\ pc = "call"
    /\ run = 1
    /\ first = <<>>
    /\ out = <<>>
    /\ grid = <<>>
    /\ frame = 0

Init ==
    /\ n \in RuleNumbers
    /\ init_state \in Configurations
    /\ max_gen \in GenerationCounts
    /\ Fresh

\* "2" stands for any character other than '0' and '1'
MalformedSymbols == InputSymbols \cup {"2"}

\* the configurations that hold a character other than '0' and '1'
MalformedConfigurations ==
    {c \in UNION {[1..l -> MalformedSymbols] : l \in 0..MaxLen} :
        \E i \in 1..Len(c) : c[i] \notin InputSymbols}

\* a run of the random execution cell's rules on a malformed configuration
InitMalformed ==
    /\ n \in InterestingRules
    /\ init_state \in MalformedConfigurations
    /\ max_gen \in GenerationCounts
    /\ Fresh

\* the execution cell: generate_pattern(init_state, get_rule(90), MAX_GEN)
InitRegular ==
    /\ n = 90
    /\ init_state \in {RegularInitState, ScenarioInitState}
    /\ max_gen = MAX_GEN
    /\ Fresh

\* the arguments are evaluated and bound: rule = get_rule(n), state = init_state
Call ==
    /\ pc = "call"
    /\ rule' = get_rule(n)
    /\ state' = init_state
    /\ pc' = "entry"
    /\ UNCHANGED <<n, init_state, max_gen, states, gen, run, first, out, grid, frame>>

\* states = []
BeginEmpty ==
    /\ pc = "entry"
    /\ states' = <<>>
    /\ gen' = 0
    /\ pc' = "loop"
    /\ UNCHANGED <<n, init_state, max_gen, rule, state, run, first, out, grid, frame>>

\* states = [state]
Begin ==
    /\ pc = "entry"
    /\ states' = <<state>>
    /\ gen' = 0
    /\ pc' = "loop"
    /\ UNCHANGED <<n, init_state, max_gen, rule, state, run, first, out, grid, frame>>

\* states.insert(0, state) in place of states.append(state)
StepInsertFront ==
    /\ pc = "loop"
    /\ gen \in Range(max_gen)
    /\ ~LookupFails(state, rule)
    /\ state' = NextState(state, rule)
    /\ states' = <<state'>> \o states
    /\ gen' = gen + 1
    /\ UNCHANGED <<n, init_state, max_gen, rule, pc, run, first, out, grid, frame>>

\* the pad cells drawn at random instead of '0'
StepRandomPad ==
    /\ pc = "loop"
    /\ gen \in Range(max_gen)
    /\ ~LookupFails(state, rule)
    /\ \E c \in {"0", "1"} :
          state' = [i \in 1..Len(NextState(state, rule)) |->
                      IF i = 1 \/ i = Len(NextState(state, rule))
                      THEN c ELSE NextState(state, rule)[i]]
    /\ states' = Append(states, state')
    /\ gen' = gen + 1
    /\ UNCHANGED <<n, init_state, max_gen, rule, pc, run, first, out, grid, frame>>

\* the loop bound one too far: range(max_gen + 1)
StepInclusive ==
    /\ pc = "loop"
    /\ gen \in Range(max_gen + 1)
    /\ ~LookupFails(state, rule)
    /\ state' = NextState(state, rule)
    /\ states' = Append(states, state')
    /\ gen' = gen + 1
    /\ UNCHANGED <<n, init_state, max_gen, rule, pc, run, first, out, grid, frame>>

\* rule.pop(pat) in place of rule[pat]: every entry looked up is removed
StepPopsRule ==
    /\ pc = "loop"
    /\ gen \in Range(max_gen)
    /\ ~LookupFails(state, rule)
    /\ state' = NextState(state, rule)
    /\ states' = Append(states, state')
    /\ gen' = gen + 1
    /\ rule' = [key \in DOMAIN rule \ {window(state, 3)[j] : j \in 1..Len(window(state, 3))}
                  |-> rule[key]]
    /\ UNCHANGED <<n, init_state, max_gen, pc, run, first, out, grid, frame>>

\* window(states[0]) in place of window(state): every generation is computed
\* from the initial configuration
StepFromInitial ==
    /\ pc = "loop"
    /\ gen \in Range(max_gen)
    /\ ~LookupFails(states[1], rule)
    /\ state' = NextState(states[1], rule)
    /\ states' = Append(states, state')
    /\ gen' = gen + 1
    /\ UNCHANGED <<n, init_state, max_gen, rule, pc, run, first, out, grid, frame>>

\* one iteration of the loop whose lookups all succeed
Step ==
    /\ pc = "loop"
    /\ gen \in Range(max_gen)
    /\ ~LookupFails(state, rule)
    /\ state' = NextState(state, rule)
    /\ states' = Append(states, state')
    /\ gen' = gen + 1
    /\ UNCHANGED <<n, init_state, max_gen, rule, pc, run, first, out, grid, frame>>

\* one iteration of the loop in which rule[pat] raises KeyError: the join never
\* completes, `state` is not assigned and nothing is appended
Fail ==
    /\ pc = "loop"
    /\ gen \in Range(max_gen)
    /\ LookupFails(state, rule)
    /\ pc' = "KeyError"
    /\ UNCHANGED <<n, init_state, max_gen, rule, state, states, gen, run, first, out, grid, frame>>

\* range(max_gen) is exhausted: return states
Return ==
    /\ pc = "loop"
    /\ gen \notin Range(max_gen)
    /\ pc' = "done"
    /\ first' = IF run = 1 THEN states ELSE first
    /\ UNCHANGED <<n, init_state, max_gen, rule, state, states, gen, run, out, grid, frame>>

\* the caller calls generate_pattern(init_state, get_rule(n), max_gen) again
Rerun ==
    /\ pc = "done"
    /\ run = 1
    /\ run' = 2
    /\ rule' = <<>>
    /\ state' = <<>>
    /\ states' = <<>>
    /\ gen' = 0
    /\ pc' = "call"
    /\ UNCHANGED <<n, init_state, max_gen, first, out, grid, frame>>

\* the caller calls generate_pattern(states[-1], get_rule(n), b): a second
\* call that starts from the last configuration of the first
Continue ==
    /\ pc = "done"
    /\ run = 1
    /\ max_gen >= 0
    /\ \E b \in 0..MaxGen : max_gen' = b
    /\ init_state' = states[Len(states)]
    /\ run' = 2
    /\ rule' = <<>>
    /\ state' = <<>>
    /\ states' = <<>>
    /\ gen' = 0
    /\ pc' = "call"
    /\ UNCHANGED <<n, first, out, grid, frame>>

\* one call of generate_pattern
Next == Call \/ Begin \/ Step \/ Fail \/ Return

Spec == Init /\ [][Next]_vars

\* a call of generate_pattern continued by a second call from its last
\* configuration
NextContinued == Call \/ Begin \/ Step \/ Fail \/ Return \/ Continue

SpecContinued == Init /\ [][NextContinued]_vars

\* two calls of generate_pattern with the same inputs, one after the other
NextTwice == Call \/ Begin \/ Step \/ Fail \/ Return \/ Rerun

SpecTwice == Init /\ [][NextTwice]_vars

\* the execution cell, whose lookups never fail

NextRegular == Call \/ Begin \/ Step \/ Return

SpecRegular == InitRegular /\ [][NextRegular]_vars

\* a run of the random execution cell's rules on a configuration over {0,1}
InitInteresting ==
    /\ n \in InterestingRules
    /\ init_state \in Configurations
    /\ max_gen \in GenerationCounts
    /\ Fresh

\* one such call that is not suspended for ever: the interpreter keeps
\* executing the next statement while there is one
SpecFair == InitInteresting /\ [][NextRegular]_vars /\ WF_vars(NextRegular)

\* rule numbers above the documented range, such as the 901 of the
\* interesting-rule list, on every configuration of 3 cells for one generation

MaxRuleNumber == 1023

InitLargeRules ==
    /\ n \in 256..MaxRuleNumber
    /\ init_state \in [1..3 -> InputSymbols]
    /\ max_gen = 1
    /\ Fresh

SpecLargeRules == InitLargeRules /\ [][NextRegular]_vars

\* rule 90 on the configurations of odd length 2c+1 whose only '1' is the
\* centre cell, as in the execution cell, for every c up to MaxCentre and
\* generation counts that run past row c

MaxCentre == 6

CentredStates == {SingleOn(2 * c + 1, c + 1) : c \in 0..MaxCentre}

InitCentred ==
    /\ n = 90
    /\ init_state \in CentredStates
    /\ max_gen \in 0..(MaxCentre + 2)
    /\ Fresh

SpecCentred == (InitCentred \/ InitRegular) /\ [][NextRegular]_vars

----------------------------------------------------------------------------
(* The printing variant: generate_pattern of the text notebook *)

\* s.replace(a, b) for one-character a
Replace(s, a, b) == [i \in 1..Len(s) |-> IF s[i] = a THEN b ELSE s[i]]

\* '\u25A0', the glyph printed for an on cell
OnGlyph == "■"

\* formatted_state of print_pattern
Formatted(st) == Replace(Replace(st, "1", OnGlyph), "0", " ")

\* the caller runs the text notebook's generate_pattern on the same inputs
RunPrinting ==
    /\ pc \in {"done", "KeyError"}
    /\ run = 1
    /\ run' = 2
    /\ rule' = <<>>
    /\ state' = <<>>
    /\ states' = <<>>
    /\ gen' = 0
    /\ pc' = "print_call"
    /\ UNCHANGED <<n, init_state, max_gen, first, out, grid, frame>>

\* the arguments are bound and state = init_state
PrintCall ==
    /\ pc = "print_call"
    /\ rule' = get_rule(n)
    /\ state' = init_state
    /\ pc' = "print_loop"
    /\ UNCHANGED <<n, init_state, max_gen, states, gen, run, first, out, grid, frame>>

\* an iteration that prints after the update instead of before it
PrintStepLate ==
    /\ pc = "print_loop"
    /\ gen \in Range(max_gen)
    /\ ~LookupFails(state, rule)
    /\ state' = NextState(state, rule)
    /\ out' = Append(out, Formatted(state'))
    /\ gen' = gen + 1
    /\ UNCHANGED <<n, init_state, max_gen, rule, states, pc, run, first, grid, frame>>

\* one iteration: print_pattern(state), then the update of state
PrintStep ==
    /\ pc = "print_loop"
    /\ gen \in Range(max_gen)
    /\ ~LookupFails(state, rule)
    /\ out' = Append(out, Formatted(state))
    /\ state' = NextState(state, rule)
    /\ gen' = gen + 1
    /\ UNCHANGED <<n, init_state, max_gen, rule, states, pc, run, first, grid, frame>>

\* one iteration in which rule[pat] raises KeyError: print_pattern(state) has
\* already printed the current configuration
PrintFail ==
    /\ pc = "print_loop"
    /\ gen \in Range(max_gen)
    /\ LookupFails(state, rule)
    /\ out' = Append(out, Formatted(state))
    /\ pc' = "print_KeyError"
    /\ UNCHANGED <<n, init_state, max_gen, rule, state, states, gen, run, first, grid, frame>>

\* the loop ends without the last print_pattern(state)
PrintReturnSilent ==
    /\ pc = "print_loop"
    /\ gen \notin Range(max_gen)
    /\ out' = out
    /\ pc' = "print_done"
    /\ UNCHANGED <<n, init_state, max_gen, rule, state, states, gen, run, first, grid, frame>>

\* range(max_gen) is exhausted: the last print_pattern(state)
PrintReturn ==
    /\ pc = "print_loop"
    /\ gen \notin Range(max_gen)
    /\ out' = Append(out, Formatted(state))
    /\ pc' = "print_done"
    /\ UNCHANGED <<n, init_state, max_gen, rule, state, states, gen, run, first, grid, frame>>

\* the list variant, then the printing variant on the same inputs
NextPrint ==
    \/ Call \/ Begin \/ Step \/ Fail \/ Return
    \/ RunPrinting \/ PrintCall \/ PrintStep \/ PrintFail \/ PrintReturn

\* the inputs of Init and the malformed configurations
InitPrint == Init \/ InitMalformed

SpecPrint == InitPrint /\ [][NextPrint]_vars

\* one call of generate_pattern on a malformed configuration
SpecMalformed == InitMalformed /\ [][Next]_vars

----------------------------------------------------------------------------
(* The raster renderer: visualize_pattern and update *)

\* int(cell) for the characters int accepts
IntOf(c) == IF c = "0" THEN 0 ELSE IF c = "1" THEN 1 ELSE 2

\* np.full((rows, cols), -1)
Full(rows, cols) == [t \in 1..rows |-> [i \in 1..cols |-> 0 - 1]]

\* update can build its array from sts[:fr+1]: every cell is a digit and the
\* rows have one length, that of sts[0]
Renderable(fr, sts) ==
    \A t \in 1..(fr + 1) :
        /\ Len(sts[t]) = Len(sts[1])
        /\ \A i \in 1..Len(sts[t]) : sts[t][i] \in {"0", "1", "2"}

\* states[:frame] in place of states[:frame+1]
UpdateGridShort(fr, sts) ==
    [t \in 1..fr |-> [i \in 1..Len(sts[t]) |-> IntOf(sts[t][i])]]
        \o Full(Len(sts) - fr - 1, Len(sts[1]))

\* the state_grid of update after the vstack: the rows of states[:frame+1] as
\* integers, then len(states) - frame - 1 rows of len(states[0]) cells of -1
UpdateGrid(fr, sts) ==
    [t \in 1..(fr + 1) |-> [i \in 1..Len(sts[t]) |-> IntOf(sts[t][i])]]
        \o Full(Len(sts) - fr - 1, Len(sts[1]))

\* visualize_pattern(states): the image starts from the grid of -1
Visualize ==
    /\ pc = "done"
    /\ grid' = Full(Len(states), Len(states[1]))
    /\ pc' = "render"
    /\ UNCHANGED <<n, init_state, max_gen, rule, state, states, gen, run, first, out, frame>>

\* the animation calls update(frame, states, im) for a frame of range(len(states))
Update ==
    /\ pc \in {"render", "frame"}
    /\ \E fr \in Range(Len(states)) :
          /\ Renderable(fr, states)
          /\ grid' = UpdateGrid(fr, states)
          /\ frame' = fr
    /\ pc' = "frame"
    /\ UNCHANGED <<n, init_state, max_gen, rule, state, states, gen, run, first, out>>

\* update raises: int(cell) rejects the cell or the rows do not form an array
UpdateFails ==
    /\ pc \in {"render", "frame"}
    /\ \E fr \in Range(Len(states)) :
          /\ ~Renderable(fr, states)
          /\ frame' = fr
    /\ pc' = "RenderError"
    /\ UNCHANGED <<n, init_state, max_gen, rule, state, states, gen, run, first, out, grid>>

\* one call of generate_pattern, then the animation of its result
NextRender ==
    \/ Call \/ Begin \/ Step \/ Fail \/ Return
    \/ Visualize \/ Update \/ UpdateFails

SpecRender == Init /\ [][NextRender]_vars

----------------------------------------------------------------------------
(* Properties *)

\* generate_pattern has been entered and `states` exists
Started == pc \in {"loop", "done", "KeyError"}

\* a documented rule number, a configuration over {0,1} of at least 3 cells and
\* a generation count >= 0
ValidInput ==
    /\ n \in DocumentedRules
    /\ Len(init_state) >= 3
    /\ \A i \in 1..Len(init_state) : init_state[i] \in {"0", "1"}
    /\ max_gen >= 0

\* 2^i
RECURSIVE Pow2(_)
Pow2(i) == IF i = 0 THEN 1 ELSE 2 * Pow2(i - 1)

\* bit i of v, counted from the least-significant bit
Bit(v, i) == (v \div Pow2(i)) % 2

\* the 3-cell pattern of i, leftmost cell = most significant bit
Pattern(i) == <<Digit((i \div 4) % 2), Digit((i \div 2) % 2), Digit(i % 2)>>

\* C1: for every rule number n in 0..255 the table get_rule(n) has exactly the
\* 8 keys 000..111 and the value under the pattern of i is bit i of n
C1_TableMatchesBits ==
    (pc # "call" /\ n \in DocumentedRules) =>
        /\ DOMAIN rule = {Pattern(i) : i \in 0..7}
        /\ Cardinality(DOMAIN rule) = 8
        /\ \A i \in 0..7 : rule[Pattern(i)] = Digit(Bit(n, i))

\* the table of rule 30 (00011110, not a palindrome) has been built
C1_Witness ==
    /\ pc # "call"
    /\ n = 30
    /\ rule[<<"1", "0", "0">>] = "1"
    /\ rule[<<"0", "1", "1">>] = "1"
    /\ rule[<<"1", "1", "0">>] = "0"

\* the table the README gives for rule 90
Rule90Table ==
    (<<"1", "1", "1">> :> "0") @@ (<<"1", "1", "0">> :> "1") @@
    (<<"1", "0", "1">> :> "0") @@ (<<"1", "0", "0">> :> "1") @@
    (<<"0", "1", "1">> :> "1") @@ (<<"0", "1", "0">> :> "0") @@
    (<<"0", "0", "1">> :> "1") @@ (<<"0", "0", "0">> :> "0")

\* C2: get_rule(90) maps 111->0, 110->1, 101->0, 100->1, 011->1, 010->0,
\* 001->1 and 000->0
C2_Rule90 == (pc # "call" /\ n = 90) => rule = Rule90Table

\* get_rule(90) has returned
C2_Witness == pc = "entry" /\ n = 90 /\ DOMAIN rule # {}

\* C3: for valid input the returned sequence has exactly N+1 elements
C3_ReturnsNPlus1 == (pc = "done" /\ ValidInput) => Len(states) = max_gen + 1

\* a valid run of at least 2 generations has returned
C3_Witness == pc = "done" /\ ValidInput /\ max_gen >= 2 /\ Len(states) = max_gen + 1

\* C4 as stated: element k of the sequence has length L0 + 2k
C4_GrowsByTwo ==
    (Started /\ ValidInput) =>
        \A k \in 1..Len(states) : Len(states[k]) = Len(init_state) + 2 * (k - 1)

\* C4, amended: element k of the sequence has length L0, for every k: the
\* configuration keeps the length of the initial configuration
C4_KeepsInitialLength ==
    (Started /\ ValidInput) =>
        \A k \in 1..Len(states) : Len(states[k]) = Len(init_state)

\* a valid run has appended at least two configurations
C4_Witness == Started /\ ValidInput /\ Len(states) >= 3

\* C5: a step applied to a configuration of length L >= 3 maps an interior of
\* L-2 windows and yields a next configuration of length exactly L
C5_StepKeepsLength ==
    [][(Step /\ Len(state) >= 3) =>
          /\ Len(window(state, 3)) = Len(state) - 2
          /\ Len(state') = Len(state)]_vars

\* a step has been taken from a configuration of 4 cells with 2 windows
C5_Witness ==
    /\ Started
    /\ Len(states) >= 2
    /\ Len(states[1]) = 4
    /\ Len(window(states[1], 3)) = 2
    /\ Len(states[2]) = 4

\* C6: element 0 of the sequence is the supplied initial configuration, from
\* the moment the sequence exists and after every later step
C6_FirstIsInitial == Started => (Len(states) >= 1 /\ states[1] = init_state)

\* two steps later element 0 is still the initial configuration, and the
\* configurations after it differ from it
C6_Witness ==
    /\ Started
    /\ Len(states) >= 3
    /\ states[1] = init_state
    /\ states[2] # init_state
    /\ states[3] # init_state

\* C7: interior cell i of configuration k+1 is the rule table entry for cells
\* i-1, i, i+1 of configuration k (1-based positions 2..L-1 here)
C7_Centred ==
    Started =>
        \A k \in 1..(Len(states) - 1) :
            \A i \in 2..(Len(states[k]) - 1) :
                states[k + 1][i] = rule[<<states[k][i - 1], states[k][i], states[k][i + 1]>>]

\* a step under rule 30 (not left-right symmetric) has produced an on cell
\* from the neighbourhood 001
C7_Witness ==
    /\ Started
    /\ ValidInput
    /\ n = 30
    /\ Len(states) >= 2
    /\ \E i \in 2..(Len(states[1]) - 1) :
          /\ <<states[1][i - 1], states[1][i], states[1][i + 1]>> = <<"0", "0", "1">>
          /\ states[2][i] = "1"

\* C8 as stated: every tracked cell of every configuration after the first,
\* the two edge cells included, is the rule applied to its neighbourhood in the
\* previous configuration with untracked neighbours read as off
C8_InfiniteLattice ==
    (Started /\ ValidInput) =>
        \A k \in 1..(Len(states) - 1) : states[k + 1] = LatticeStep(states[k], rule)

\* C8, amended: every configuration after the first is that lattice step with
\* its two edge cells set off; the edge cells are not computed by the rule
C8_ClippedLattice ==
    (Started /\ ValidInput) =>
        \A k \in 1..(Len(states) - 1) :
            states[k + 1] = ClipEdges(LatticeStep(states[k], rule))

\* activity at the edge has been clipped: the lattice step turns an edge cell
\* on and the configuration appended has it off
C8_Witness ==
    /\ Started
    /\ ValidInput
    /\ Len(states) >= 2
    /\ LatticeStep(states[1], rule)[1] = "1"
    /\ states[2][1] = "0"

BinomOdd(t, j) ==
    /\ 0 <= j
    /\ j <= t
    /\ \A b \in 0..6 : Bit(j, b) <= Bit(t, b)

\* BinomOdd is Pascal's triangle mod 2: row 0 is the single entry 1 and every
\* entry of a later row is the sum mod 2 of the two entries above it
BinomOddIsPascal ==
    /\ BinomOdd(0, 0)
    /\ \A t \in 1..MAX_GEN : \A j \in 0..t :
          BinomOdd(t, j) <=> (BinomOdd(t - 1, j - 1) # BinomOdd(t - 1, j))

\* |d| <= t, d + t even and C(t, (d+t)/2) odd
PascalOn(t, d) ==
    /\ 0 - t <= d
    /\ d <= t
    /\ (d + t) % 2 = 0
    /\ BinomOdd(t, (d + t) \div 2)

\* the 1-based position of the centre cell of a configuration of odd length
Centre(st) == (Len(st) + 1) \div 2

\* the on cells of configuration `row` are exactly the cells at the offsets d
\* from the centre with PascalOn(t, d)
RowIsPascal(row, t) ==
    \A i \in 1..Len(row) : (row[i] = "1") <=> PascalOn(t, i - Centre(row))

\* the run of the scenario: rule 90, 85 cells, the only on cell at index 42
ScenarioRun == n = 90 /\ init_state = ScenarioInitState /\ max_gen = MAX_GEN

\* C10 as stated: every row t in 0..100 of the scenario is row t of Pascal's
\* triangle mod 2
C10_AllRowsPascal ==
    (Started /\ ScenarioRun) =>
        /\ BinomOddIsPascal
        /\ \A t \in 0..(Len(states) - 1) : RowIsPascal(states[t + 1], t)

\* C10, amended: every row t in 0..41 of the scenario, the rows before the
\* pattern reaches the two edge cells, is row t of Pascal's triangle mod 2
C10_RowsBeforeEdgePascal ==
    (Started /\ ScenarioRun) =>
        /\ BinomOddIsPascal
        /\ \A t \in 0..(Len(states) - 1) :
              t < Centre(init_state) - 1 => RowIsPascal(states[t + 1], t)

\* the scenario has returned all 101 rows, row 41 with its outermost on cells
\* next to the edge cells
C10_Witness ==
    /\ pc = "done"
    /\ ScenarioRun
    /\ Len(states) = MAX_GEN + 1
    /\ states[42][2] = "1"
    /\ states[42][84] = "1"

\* the rule table has been built and maps 000 to 0, and the initial
\* configuration is "000"
AllOffRun ==
    /\ Started
    /\ init_state = <<"0", "0", "0">>
    /\ rule[<<"0", "0", "0">>] = "0"

\* C11 as stated: from "000" under a rule with 000 -> 0, configuration k is
\* all-off and has 3 + 2k cells ("00000", "0000000", ...)
C11_AllOffGrowing ==
    AllOffRun => \A k \in 1..Len(states) : states[k] = Zeros(3 + 2 * (k - 1))

\* C11, amended: from "000" under a rule with 000 -> 0, every later
\* configuration is all-off and keeps 3 cells: it is "000" at every step
C11_AllOffSameLength ==
    AllOffRun => \A k \in 1..Len(states) : states[k] = Zeros(3)

\* two steps from "000" under rule 90 have been taken
C11_Witness == AllOffRun /\ n = 90 /\ Len(states) >= 3 /\ states[3] = <<"0", "0", "0">>

\* the rule numbers of C12: those the random run can draw and 0..255
DrawableRules == InterestingRules \cup DocumentedRules

\* a configuration over {0,1} of at least 3 cells
ValidConfiguration(st) ==
    /\ Len(st) >= 3
    /\ \A i \in 1..Len(st) : st[i] \in {"0", "1"}

\* C12: for a configuration over {0,1} of length >= 3, a rule number of the
\* interesting list or of 0..255 and N >= 0, no lookup fails: every window of
\* the current configuration is a key of the rule table and no KeyError occurs
C12_NoLookupFails ==
    (Started /\ n \in DrawableRules /\ ValidConfiguration(init_state) /\ max_gen >= 0) =>
        /\ pc # "KeyError"
        /\ \A j \in 1..Len(window(state, 3)) : window(state, 3)[j] \in DOMAIN rule

\* a run under 901, the number of the interesting list above 255, has returned
\* after two steps
C12_Witness ==
    /\ pc = "done"
    /\ n = 901
    /\ ValidConfiguration(init_state)
    /\ Len(states) >= 3

\* C13: with generation count 0 the returned sequence holds the initial
\* configuration and nothing else
C13_ZeroGenerations == (pc = "done" /\ max_gen = 0) => states = <<init_state>>

\* a run with N = 0 on a configuration of 4 cells has returned
C13_Witness == pc = "done" /\ max_gen = 0 /\ Len(init_state) = 4 /\ Len(states) = 1

\* C14: for a rule number outside 0..255 the table build fails: no table
\* exists, not even a partial one, and the run goes no further than the failed
\* call
C14_OutOfRangeRejected ==
    (n \notin DocumentedRules) => (rule = <<>> /\ pc \in {"call", "InvalidRuleNumber"})

\* C15: a step on a configuration of fewer than 3 cells fails and appends
\* nothing: no element of the sequence follows a configuration of fewer than
\* 3 cells
C15_ShortConfigurationFails ==
    Started => \A k \in 1..(Len(states) - 1) : Len(states[k]) >= 3

\* C17: a generation count N < 0 is rejected: the call never returns a sequence
C17_NegativeCountRejected == (max_gen < 0) => pc # "done"

\* the initial configuration holds a character other than '0' and '1'
HasInvalidSymbol(st) == \E i \in 1..Len(st) : st[i] \notin {"0", "1"}

\* C16: with a character outside {0,1} anywhere in the initial configuration
\* and N >= 0, the run fails before any transition: it never returns and no
\* configuration is appended after the initial one
C16_InvalidSymbolRejected ==
    (HasInvalidSymbol(init_state) /\ max_gen >= 0) =>
        (pc # "done" /\ Len(states) <= 1)

\* C18: when a run fails, nothing has been delivered: the list variant has
\* returned no list and the printing variant has printed no line
C18_AllOrNothing ==
    /\ (pc = "KeyError" => first = <<>>)
    /\ (pc = "print_KeyError" => out = <<>>)

\* row t of the grid holds configuration `row`: 1 where it is on, 0 where off
HoldsConfiguration(grow, row) ==
    /\ Len(grow) = Len(row)
    /\ \A i \in 1..Len(row) :
          /\ (row[i] = "1") <=> (grow[i] = 1)
          /\ (row[i] = "0") <=> (grow[i] = 0)

\* C19: after update(f, states, im) on the result of a valid run the grid has
\* N+1 rows, each as wide as the final configuration; row t holds configuration
\* t for t <= f and every later row holds only -1
C19_GridOfFrame ==
    (pc = "frame" /\ ValidInput) =>
        /\ Len(grid) = max_gen + 1
        /\ \A t \in 1..Len(grid) : Len(grid[t]) = Len(states[Len(states)])
        /\ \A t \in 1..(frame + 1) : HoldsConfiguration(grid[t], states[t])
        /\ \A t \in (frame + 2)..Len(grid) :
              \A i \in 1..Len(grid[t]) : grid[t][i] = 0 - 1 /\ grid[t][i] \notin {0, 1}

\* update has been called for frame 1 of a valid run of 2 generations: rows 0
\* and 1 hold configurations and row 2 is blank
C19_Witness ==
    /\ pc = "frame"
    /\ ValidInput
    /\ max_gen = 2
    /\ frame = 1
    /\ Len(grid) = 3
    /\ \E i \in 1..Len(grid[2]) : grid[2][i] = 1
    /\ grid[3][1] = 0 - 1

\* configuration `row` with every 1 replaced by the on glyph and every 0 by a
\* space
Glyphs(row) ==
    [i \in 1..Len(row) |->
        IF row[i] = "1" THEN OnGlyph ELSE IF row[i] = "0" THEN " " ELSE row[i]]

\* C20: for N >= 0 the printing variant prints exactly N+1 lines and line k is
\* configuration k of the list the list-returning variant returned on the same
\* inputs, with every 1 replaced by the on glyph and every 0 by a space
C20_PrintedIsList ==
    (pc = "print_done" /\ max_gen >= 0) =>
        /\ Len(out) = max_gen + 1
        /\ Len(first) = max_gen + 1
        /\ \A k \in 1..Len(out) : out[k] = Glyphs(first[k])

\* both variants have finished a valid run of 2 generations whose last line
\* shows an on cell
C20_Witness ==
    /\ pc = "print_done"
    /\ ValidInput
    /\ Len(out) = 3
    /\ Len(first) = 3
    /\ \E i \in 1..Len(out[3]) : out[3][i] = OnGlyph /\ first[3][i] = "1"

\* C21: once a configuration has been appended, no later step changes it or
\* any configuration before it: across every step of the run the sequence so
\* far is a prefix of the sequence after the step
C21_PrefixKept ==
    [][pc = "loop" =>
          /\ Len(states') >= Len(states)
          /\ SubSeq(states', 1, Len(states)) = states]_vars

\* a run has returned three pairwise different configurations, each in the
\* position it was appended at
C21_Witness ==
    /\ pc = "done"
    /\ Len(states) = 3
    /\ states[1] # states[2]
    /\ states[2] # states[3]
    /\ states[1] # states[3]
    /\ states[2] = NextState(states[1], rule)

\* C22: no step of generate_pattern changes the rule table: across every step
\* taken inside the function the table stays the one get_rule built
C22_RuleUnchanged ==
    [][pc = "loop" => (rule' = rule /\ rule' = get_rule(n))]_vars

\* two steps later the table is still the full 8-entry table of rule 110
C22_Witness ==
    /\ pc = "done"
    /\ n = 110
    /\ gen = 2
    /\ Cardinality(DOMAIN rule) = 8
    /\ rule = get_rule(110)

\* C25: for every rule number in 0..255 and every initial configuration, the
\* first and the last cell of every configuration after the initial one are
\* off
C25_EdgesOff ==
    (Started /\ n \in DocumentedRules) =>
        \A k \in 2..Len(states) :
            /\ states[k][1] = "0"
            /\ states[k][Len(states[k])] = "0"

\* under rule 255, which maps 000 to 1, the all-off configuration of 4 cells
\* has turned on in its interior and stayed off at both edges
C25_Witness ==
    /\ Started
    /\ n = 255
    /\ Len(states) >= 2
    /\ states[1] = <<"0", "0", "0", "0">>
    /\ states[2] = <<"0", "1", "1", "0">>

\* C28: for an initial configuration of 0, 1 or 2 cells, whatever its symbols
\* and whatever the rule number, no lookup is made and no error is raised,
\* and every configuration after the initial one is the two-cell
\* configuration "00"; a call with N >= 1 returns N+1 configurations
C28_ShortGivesTwoOff ==
    Len(init_state) <= 2 =>
        /\ pc \notin {"KeyError", "print_KeyError"}
        /\ Len(window(init_state, 3)) = 0
        /\ Started => \A k \in 2..Len(states) : states[k] = <<"0", "0">>
        /\ (pc = "done" /\ max_gen >= 1) => Len(states) = max_gen + 1

\* the one-cell configuration "2" under rule number 901 has been run for two
\* generations and both are "00"
C28_Witness ==
    /\ pc = "done"
    /\ n = 901
    /\ init_state = <<"2">>
    /\ max_gen = 2
    /\ states = <<init_state, <<"0", "0">>, <<"0", "0">> >>

\* C27: for every rule number n >= 256 get_rule(n) raises no error and is the
\* 8-entry table of n mod 256: the value under the pattern of i is bit i of
\* n mod 256, no lookup in it fails, and rule number 901 gives the table of
\* rule 133
C27_LowBitsOnly ==
    (pc # "call" /\ n >= 256) =>
        /\ DOMAIN rule = {Pattern(i) : i \in 0..7}
        /\ \A i \in 0..7 : rule[Pattern(i)] = Digit(Bit(n % 256, i))
        /\ rule = get_rule(n % 256)
        /\ n = 901 => rule = get_rule(133)
        /\ pc = "loop" => ~LookupFails(state, rule)

\* get_rule(901) has returned the table of 133 = 10000101 and a generation
\* has been computed with it
C27_Witness ==
    /\ pc = "done"
    /\ n = 901
    /\ Len(states) = 2
    /\ rule[<<"0", "0", "0">>] = "1"
    /\ rule[<<"0", "0", "1">>] = "0"
    /\ rule[<<"0", "1", "0">>] = "1"
    /\ rule[<<"1", "1", "1">>] = "1"
    /\ rule[<<"1", "1", "0">>] = "0"

\* C26: with rule 90 and an initial configuration of odd length 2c+1 whose
\* only on cell is the centre cell, every row t < c is row t of Pascal's
\* triangle mod 2: the cell at offset d from the centre is on exactly when
\* |d| <= t, d+t is even and C(t, (d+t)/2) is odd
C26_PascalBeforeEdge ==
    (/\ Started
     /\ n = 90
     /\ Len(init_state) % 2 = 1
     /\ init_state = SingleOn(Len(init_state), Centre(init_state))) =>
        /\ BinomOddIsPascal
        /\ \A t \in 0..(Len(states) - 1) :
              t < (Len(init_state) - 1) \div 2 =>
                  \A i \in 1..Len(states[t + 1]) :
                      (states[t + 1][i] = "1") <=>
                          PascalOn(t, i - Centre(init_state))

\* the run on 7 cells (c = 3) has returned with row 2 holding its two on
\* cells next to the edge cells and with rows past row c
C26_Witness ==
    /\ pc = "done"
    /\ n = 90
    /\ init_state = SingleOn(7, 4)
    /\ Len(states) >= 5
    /\ states[3] = <<"0", "1", "0", "0", "0", "1", "0">>

\* C24: a run of a generations continued by a run of b generations from its
\* last configuration C_a gives the run of a+b generations: the sequence of
\* generate_pattern(C0, R, a+b) is the sequence of generate_pattern(C0, R, a)
\* followed by elements 1..b of generate_pattern(C_a, R, b); every returned
\* sequence is the one the function gives for the call's own arguments
C24_RunsCompose ==
    /\ pc = "done" => states = generate_pattern(init_state, rule, max_gen)
    /\ (pc = "done" /\ run = 2) =>
          /\ init_state = first[Len(first)]
          /\ first \o Tail(states) =
                generate_pattern(first[1], rule, (Len(first) - 1) + max_gen)

\* a run of one generation has been continued by a run of one generation from
\* its last configuration, and the three configurations differ
C24_Witness ==
    /\ pc = "done"
    /\ run = 2
    /\ Len(first) = 2
    /\ Len(states) = 2
    /\ first[1] # first[2]
    /\ states[2] # first[2]
    /\ states[2] # first[1]

\* the number of statements of the call that can be executed next
EnabledCount ==
    LET e == <<ENABLED Call, ENABLED Begin, ENABLED Step, ENABLED Fail, ENABLED Return>>
    IN  Cardinality({i \in 1..5 : e[i]})

\* C23: for valid input the run is a linear iteration that terminates: in
\* every state before the return exactly one statement can be executed next
\* and it is never a failing lookup, every step lowers the number of remaining
\* steps max_gen - gen by exactly one, and the call, started with max_gen
\* remaining steps, eventually returns with 0 remaining steps, max_gen steps
\* taken and the last configuration C_N as current state
C23_Terminates ==
    /\ [](ValidInput => /\ EnabledCount = (IF pc = "done" THEN 0 ELSE 1)
                        /\ ~ENABLED Fail
                        /\ pc = "loop" => max_gen - gen \in 0..max_gen)
    /\ [][(ValidInput /\ gen' # gen) =>
             /\ max_gen - gen' = (max_gen - gen) - 1
             /\ Len(states') = Len(states) + 1]_vars
    /\ (ValidInput /\ pc = "call") ~>
          (/\ pc = "done"
           /\ max_gen - gen = 0
           /\ Len(states) = max_gen + 1
           /\ state = states[max_gen + 1])

\* a valid call with 2 remaining steps has returned with none remaining
C23_Witness ==
    /\ pc = "done"
    /\ ValidInput
    /\ max_gen = 2
    /\ max_gen - gen = 0
    /\ Len(states) = 3
    /\ state = states[3]

====
